---- MODULE Spec2Model ----
(***************************************************************************)
(* Model of the Tauri chat agent (src-tauri/src/lib.rs): the shared,       *)
(* lazily created and health-checked connection to the remote tool server  *)
(* (CONNECTION_POOL, get_connection, create_connection) and the streaming  *)
(* loop of chat_with_agent that forwards model output to the UI sink.      *)
(*                                                                         *)
(* Every action is one step of an async function between two suspension    *)
(* points (.await); the replies of the tool server, of the model stream    *)
(* and the calls made by the UI are the nondeterministic inputs.           *)
(***************************************************************************)
EXTENDS Integers, Sequences, FiniteSets, TLC

(* ------------------------------ bounds --------------------------------- *)

\* Number of chat turns that can be in progress at the same time.
NumTurns == 3

\* Total number of chat_with_agent invocations made by the UI.
MaxCalls == 3

\* Number of items a model stream yields before it is exhausted.
MaxStreamLen == 4

Turns == 1..NumTurns

(* ------------------------ Option and Result ---------------------------- *)

\* Option<T>: the empty sequence is None, a one-element sequence is Some(x).
None == <<>>

Some(x) == <<x>>

(* --------------------------- JSON values ------------------------------- *)

\* A JSON object is a function from its keys to values. The values used in
\* tool schemas: an object (its top-level keys, in the map's iteration order),
\* an array of strings, a string.
JObject(keys) == [kind |-> "object", items |-> keys]

JArray(items) == [kind |-> "array", items |-> items]

JString(s) == [kind |-> "string", items |-> <<s>>]

\* NormalizeSchema that keeps a "required" list the server sent and fills in
\* only a missing one.
NormalizeSchemaKeepRequired(schema) ==
    IF /\ "properties" \in DOMAIN schema
       /\ schema["properties"].kind = "object"
       /\ "required" \notin DOMAIN schema
    THEN [k \in DOMAIN schema \cup {"required"} |->
            IF k = "required" THEN JArray(schema["properties"].items)
                              ELSE schema[k]]
    ELSE schema

\* NormalizeSchema that writes a "required" list into every schema, an empty
\* one when there is no "properties" object.
NormalizeSchemaAlways(schema) ==
    [k \in DOMAIN schema \cup {"required"} |->
        IF k = "required"
        THEN IF "properties" \in DOMAIN schema /\ schema["properties"].kind = "object"
             THEN JArray(schema["properties"].items)
             ELSE JArray(<<>>)
        ELSE schema[k]]

\* lib.rs 145-152: the "required" list of a schema with a "properties" object
\* becomes the list of all its top-level property keys.
NormalizeSchema(schema) ==
    IF "properties" \in DOMAIN schema /\ schema["properties"].kind = "object"
    THEN [k \in DOMAIN schema \cup {"required"} |->
            IF k = "required" THEN JArray(schema["properties"].items)
                              ELSE schema[k]]
    ELSE schema

\* lib.rs 144-153: every tool of the fetched catalog is normalized in place.
NormalizeTools(tools) ==
    [i \in 1..Len(tools) |-> [tools[i] EXCEPT !.input_schema = NormalizeSchema(@)]]

\* The catalogs the remote tool server answers list_tools with.
CatalogA ==
    << [name |-> "add",
        input_schema |-> ("type" :> JString("object")
                          @@ "properties" :> JObject(<<"a", "b">>))] >>

CatalogB ==
    << [name |-> "add",
        input_schema |-> ("type" :> JString("object")
                          @@ "properties" :> JObject(<<"a", "b">>)
                          @@ "required" :> JArray(<<"a">>))],
       [name |-> "ping",
        input_schema |-> ("type" :> JString("object"))] >>

ServerCatalogs == {CatalogA, CatalogB}

(* --------------------------- stream items ------------------------------ *)

Texts == {"a", "b"}

\* Item of the model stream (Result<MultiTurnStreamItem, Error>).
TextItem(s) == [kind |-> "text", text |-> s]

ToolCallItem == [kind |-> "toolcall", text |-> ""]

OtherItem == [kind |-> "other", text |-> ""]

FinalItem == [kind |-> "final", text |-> ""]

ErrorItem == [kind |-> "error", text |-> "e"]

\* lib.rs 15-19: the payload of an "agent-chunk" event.
AgentChunk(delta) == [delta |-> Some(delta), tool_calls |-> None]

\* A String is the sequence of the pieces it is formatted from.
\* lib.rs 33: the message of the missing-credential error.
KeyErrorMsg == <<"OPENAI_API_KEY environment variable not set">>

\* lib.rs 68: text.to_string()
TextDelta(s) == <<s>>

\* lib.rs 92: format!("Error: {}", e)
StreamErrorDelta(e) == <<"Error: ", e>>

\* lib.rs 96: format!("Stream error: {}", e)
StreamErrorMsg(e) == <<"Stream error: ", e>>

\* Result<(), String> of chat_with_agent.
Ok == [ok |-> TRUE, err |-> <<>>]

Err(msg) == [ok |-> FALSE, err |-> <<msg>>]

(* ------------------------------- state --------------------------------- *)

VARIABLES
    apiKey,       \* OPENAI_API_KEY is set in the process environment
    catalog,      \* the catalog the tool server currently serves
    pool,         \* CONNECTION_POOL: Option<ConnectionHolder>
    lockOwner,    \* the turn holding the slot's mutex, 0 when it is free
    waiters,      \* the turns queued on pool.lock().await, in arrival order
    live,         \* the connections whose running service has not been dropped
    created,      \* number of create_connection executions so far
    calls,        \* number of chat_with_agent invocations so far
    healthy,      \* no handshake, catalog fetch or probe has failed so far
    returnedTools,\* the tool lists get_connection has returned so far
    pc,           \* position of each turn
    probe,        \* get_connection: outcome of the liveness probe of this call
    probes,       \* get_connection: liveness probes started by this call
    attempts,     \* get_connection: create_connection calls made by this call
    service,      \* create_connection: the connection under construction
    returned,     \* the result get_connection gave to the turn
    consumed,     \* the stream items the turn has taken from the model stream
    emitted,      \* the chunks the turn has emitted to the sink
    undelivered,  \* the positions in emitted of the chunks whose delivery failed
    result        \* the result chat_with_agent returned

poolVars == <<pool, lockOwner, waiters, live, created, healthy, returnedTools>>

turnVars == <<pc, probe, probes, attempts, service, returned, consumed, emitted, undelivered, result>>

vars == <<apiKey, catalog, calls, poolVars, turnVars>>

\* lib.rs 22-26: the cached connection, its id standing for the peer handle and
\* for the running service it keeps alive.
ConnectionHolder(id, tools) == [client |-> id, tools |-> tools]

\* Result<(Vec<Tool>, Peer), Error> of get_connection.
ConnOk(tools, client) == [ok |-> TRUE, tools |-> tools, client |-> client]

ConnErr == [ok |-> FALSE, tools |-> <<>>, client |-> 0]

Init ==
    /\ apiKey \in BOOLEAN
    /\ catalog \in ServerCatalogs
    /\ pool = None
    /\ lockOwner = 0
    /\ waiters = <<>>
    /\ live = {}
    /\ created = 0
    /\ calls = 0
    /\ healthy = TRUE
    /\ returnedTools = {}
    /\ pc = [t \in Turns |-> "idle"]
    /\ probe = [t \in Turns |-> None]
    /\ probes = [t \in Turns |-> 0]
    /\ attempts = [t \in Turns |-> 0]
    /\ service = [t \in Turns |-> 0]
    /\ returned = [t \in Turns |-> None]
    /\ consumed = [t \in Turns |-> <<>>]
    /\ emitted = [t \in Turns |-> <<>>]
    /\ undelivered = [t \in Turns |-> {}]
    /\ result = [t \in Turns |-> None]

(* ------------------------- the tool server ----------------------------- *)

\* What tokio::time::timeout(.., list_tools(..)).await can give: a reply in
\* time, an error in time (Ok(Err(_))), or the timeout elapsing (Err(Elapsed)).
ListToolsOutcomes == {"ok", "err", "timeout"}

\* What client_info.serve(transport).await can give.
HandshakeOutcomes == {"ok", "err"}

\* The server's catalog changes (tools are added or removed on the server).
ServerUpdate ==
    /\ catalog' \in ServerCatalogs \ {catalog}
    /\ UNCHANGED <<apiKey, calls, poolVars, turnVars>>

(* --------------------------- chat_with_agent --------------------------- *)

\* lib.rs 42, 76-78, 95: app_handle.emit("agent-chunk", chunk) after the chunks
\* `before`, of which those at the positions `lost` were not delivered. The
\* delivery can fail; the failure is logged (77) or dropped (.ok()) and the
\* turn goes on.
Emit(t, before, lost, chunk) ==
    /\ emitted' = [emitted EXCEPT ![t] = Append(before, chunk)]
    /\ \E delivered \in BOOLEAN :
          undelivered' = [undelivered EXCEPT
                            ![t] = IF delivered THEN lost
                                   ELSE lost \cup {Len(before) + 1}]

\* Invoke with the early return of lib.rs 43 missing: the error chunk is emitted
\* and the turn goes on to get_connection.
InvokeMissingReturn(t) ==
    /\ pc[t] \in {"idle", "done"}
    /\ calls < MaxCalls
    /\ calls' = calls + 1
    /\ probe' = [probe EXCEPT ![t] = None]
    /\ probes' = [probes EXCEPT ![t] = 0]
    /\ attempts' = [attempts EXCEPT ![t] = 0]
    /\ returned' = [returned EXCEPT ![t] = None]
    /\ consumed' = [consumed EXCEPT ![t] = <<>>]
    /\ IF ~apiKey
       THEN Emit(t, <<>>, {}, AgentChunk(KeyErrorMsg))
       ELSE /\ emitted' = [emitted EXCEPT ![t] = <<>>]
            /\ undelivered' = [undelivered EXCEPT ![t] = {}]
    /\ result' = [result EXCEPT ![t] = None]
    /\ pc' = [pc EXCEPT ![t] = "lock"]
    /\ waiters' = Append(waiters, t)
    /\ UNCHANGED <<apiKey, catalog, pool, lockOwner, live, created, healthy,
                   returnedTools, service>>

\* lib.rs 28-45, 105-109: the UI invokes the command. Without the credential
\* the turn emits one chunk and fails; otherwise it calls get_connection and
\* queues on the slot's mutex.
Invoke(t) ==
    /\ pc[t] \in {"idle", "done"}
    /\ calls < MaxCalls
    /\ calls' = calls + 1
    /\ probe' = [probe EXCEPT ![t] = None]
    /\ probes' = [probes EXCEPT ![t] = 0]
    /\ attempts' = [attempts EXCEPT ![t] = 0]
    /\ returned' = [returned EXCEPT ![t] = None]
    /\ consumed' = [consumed EXCEPT ![t] = <<>>]
    /\ IF ~apiKey
       THEN /\ Emit(t, <<>>, {}, AgentChunk(KeyErrorMsg))
            /\ result' = [result EXCEPT ![t] = Some(Err(KeyErrorMsg))]
            /\ pc' = [pc EXCEPT ![t] = "done"]
            /\ UNCHANGED waiters
       ELSE /\ emitted' = [emitted EXCEPT ![t] = <<>>]
            /\ undelivered' = [undelivered EXCEPT ![t] = {}]
            /\ result' = [result EXCEPT ![t] = None]
            /\ pc' = [pc EXCEPT ![t] = "lock"]
            /\ waiters' = Append(waiters, t)
    /\ UNCHANGED <<apiKey, catalog, pool, lockOwner, live, created, healthy,
                   returnedTools, service>>

(* ---------------------------- get_connection --------------------------- *)

\* Acquire without mutual exclusion: the slot is read without waiting for the
\* turn that holds the mutex.
AcquireUnlocked(t) ==
    /\ pc[t] = "lock"
    /\ waiters # <<>>
    /\ Head(waiters) = t
    /\ lockOwner' = t
    /\ waiters' = Tail(waiters)
    /\ IF pool # None
       THEN /\ pc' = [pc EXCEPT ![t] = "probe"]
            /\ probes' = [probes EXCEPT ![t] = @ + 1]
            /\ UNCHANGED <<created, service, attempts>>
       ELSE /\ pc' = [pc EXCEPT ![t] = "handshake"]
            /\ created' = created + 1
            /\ attempts' = [attempts EXCEPT ![t] = @ + 1]
            /\ service' = [service EXCEPT ![t] = created + 1]
            /\ UNCHANGED probes
    /\ UNCHANGED <<apiKey, catalog, calls, pool, live, healthy, returnedTools,
                   probe, returned, consumed, emitted, undelivered, result>>

\* lib.rs 109-111, 118: the turn at the head of the queue takes the free mutex.
\* With a cached holder it starts the liveness probe, with an empty slot it
\* enters create_connection.
Acquire(t) ==
    /\ pc[t] = "lock"
    /\ lockOwner = 0
    /\ waiters # <<>>
    /\ Head(waiters) = t
    /\ lockOwner' = t
    /\ waiters' = Tail(waiters)
    /\ IF pool # None
       THEN /\ pc' = [pc EXCEPT ![t] = "probe"]
            /\ probes' = [probes EXCEPT ![t] = @ + 1]
            /\ UNCHANGED <<created, service, attempts>>
       ELSE /\ pc' = [pc EXCEPT ![t] = "handshake"]
            /\ created' = created + 1
            /\ attempts' = [attempts EXCEPT ![t] = @ + 1]
            /\ service' = [service EXCEPT ![t] = created + 1]
            /\ UNCHANGED probes
    /\ UNCHANGED <<apiKey, catalog, calls, pool, live, healthy, returnedTools,
                   probe, returned, consumed, emitted, undelivered, result>>

\* ProbePassed with the test inverted (is_err() for is_ok()).
ProbePassedInverted(outcome) == outcome = "timeout"

\* lib.rs 112: timeout(..).await.is_ok() looks at the timeout's own Result only:
\* the probe counts as passed unless the two seconds elapsed.
ProbePassed(outcome) == outcome # "timeout"

\* Probe with `*guard = None` (lib.rs 115) missing: the stale holder stays in the
\* slot while its replacement is created.
ProbeKeepStale(t) ==
    /\ pc[t] = "probe"
    /\ pool # None
    /\ \E r \in ListToolsOutcomes :
        /\ probe' = [probe EXCEPT ![t] = Some([outcome |-> r, client |-> pool[1].client])]
        /\ healthy' = (healthy /\ r = "ok")
        /\ IF ProbePassed(r)
           THEN /\ returned' = [returned EXCEPT
                                  ![t] = Some(ConnOk(pool[1].tools, pool[1].client))]
                /\ returnedTools' = returnedTools \cup {pool[1].tools}
                /\ lockOwner' = 0
                /\ pc' = [pc EXCEPT ![t] = "agent"]
                /\ UNCHANGED <<pool, live, created, service, attempts>>
           ELSE /\ created' = created + 1
                /\ attempts' = [attempts EXCEPT ![t] = @ + 1]
                /\ service' = [service EXCEPT ![t] = created + 1]
                /\ pc' = [pc EXCEPT ![t] = "handshake"]
                /\ UNCHANGED <<pool, live, returned, returnedTools, lockOwner>>
    /\ UNCHANGED <<apiKey, catalog, calls, waiters, probes, consumed, emitted,
                   undelivered, result>>

\* Probe that uses the catalog carried by the probe's reply: a passed probe
\* returns the server's current tools with the cached client.
ProbeRefreshTools(t) ==
    /\ pc[t] = "probe"
    /\ pool # None
    /\ \E r \in ListToolsOutcomes :
        /\ probe' = [probe EXCEPT ![t] = Some([outcome |-> r, client |-> pool[1].client])]
        /\ healthy' = (healthy /\ r = "ok")
        /\ IF ProbePassed(r)
           THEN LET tools == IF r = "ok" THEN NormalizeTools(catalog) ELSE pool[1].tools IN
                /\ returned' = [returned EXCEPT ![t] = Some(ConnOk(tools, pool[1].client))]
                /\ returnedTools' = returnedTools \cup {tools}
                /\ lockOwner' = 0
                /\ pc' = [pc EXCEPT ![t] = "agent"]
                /\ UNCHANGED <<pool, live, created, service, attempts>>
           ELSE /\ pool' = None
                /\ live' = live \ {pool[1].client}
                /\ created' = created + 1
                /\ attempts' = [attempts EXCEPT ![t] = @ + 1]
                /\ service' = [service EXCEPT ![t] = created + 1]
                /\ pc' = [pc EXCEPT ![t] = "handshake"]
                /\ UNCHANGED <<returned, returnedTools, lockOwner>>
    /\ UNCHANGED <<apiKey, catalog, calls, waiters, probes, consumed, emitted,
                   undelivered, result>>

\* lib.rs 112-118: the probe's reply. A passed probe returns the cached tools
\* and client and releases the mutex; otherwise the holder is dropped, the slot
\* emptied and create_connection entered.
Probe(t) ==
    /\ pc[t] = "probe"
    /\ pool # None
    /\ \E r \in ListToolsOutcomes :
        /\ probe' = [probe EXCEPT ![t] = Some([outcome |-> r, client |-> pool[1].client])]
        /\ healthy' = (healthy /\ r = "ok")
        /\ IF ProbePassed(r)
           THEN /\ returned' = [returned EXCEPT
                                  ![t] = Some(ConnOk(pool[1].tools, pool[1].client))]
                /\ returnedTools' = returnedTools \cup {pool[1].tools}
                /\ lockOwner' = 0
                /\ pc' = [pc EXCEPT ![t] = "agent"]
                /\ UNCHANGED <<pool, live, created, service, attempts>>
           ELSE /\ pool' = None
                /\ live' = live \ {pool[1].client}
                /\ created' = created + 1
                /\ attempts' = [attempts EXCEPT ![t] = @ + 1]
                /\ service' = [service EXCEPT ![t] = created + 1]
                /\ pc' = [pc EXCEPT ![t] = "handshake"]
                /\ UNCHANGED <<returned, returnedTools, lockOwner>>
    /\ UNCHANGED <<apiKey, catalog, calls, waiters, probes, consumed, emitted,
                   undelivered, result>>

(* --------------------------- create_connection ------------------------- *)

\* Handshake that retries once inside the same call when the handshake fails.
HandshakeRetry(t) ==
    /\ pc[t] = "handshake"
    /\ \E r \in HandshakeOutcomes :
        /\ healthy' = (healthy /\ r = "ok")
        /\ IF r = "ok"
           THEN /\ live' = live \cup {service[t]}
                /\ pc' = [pc EXCEPT ![t] = "catalog"]
                /\ UNCHANGED <<service, returned, lockOwner, created, attempts>>
           ELSE IF attempts[t] < 2
                THEN /\ created' = created + 1
                     /\ attempts' = [attempts EXCEPT ![t] = @ + 1]
                     /\ service' = [service EXCEPT ![t] = created + 1]
                     /\ UNCHANGED <<pc, returned, lockOwner, live>>
                ELSE /\ service' = [service EXCEPT ![t] = 0]
                     /\ returned' = [returned EXCEPT ![t] = Some(ConnErr)]
                     /\ lockOwner' = 0
                     /\ pc' = [pc EXCEPT ![t] = "agent"]
                     /\ UNCHANGED <<live, created, attempts>>
    /\ UNCHANGED <<apiKey, catalog, calls, pool, waiters, returnedTools, probe,
                   probes, consumed, emitted, undelivered, result>>

\* Handshake whose error return leaves the mutex locked (the guard outlives
\* the call).
HandshakeKeepLock(t) ==
    /\ pc[t] = "handshake"
    /\ \E r \in HandshakeOutcomes :
        /\ healthy' = (healthy /\ r = "ok")
        /\ IF r = "ok"
           THEN /\ live' = live \cup {service[t]}
                /\ pc' = [pc EXCEPT ![t] = "catalog"]
                /\ UNCHANGED <<service, returned>>
           ELSE /\ service' = [service EXCEPT ![t] = 0]
                /\ returned' = [returned EXCEPT ![t] = Some(ConnErr)]
                /\ pc' = [pc EXCEPT ![t] = "agent"]
                /\ UNCHANGED live
    /\ UNCHANGED <<apiKey, catalog, calls, pool, lockOwner, waiters, created,
                   returnedTools, probe, probes, attempts, consumed, emitted, undelivered, result>>

\* lib.rs 127-141, 118: the transport is opened and the handshake made. On an
\* error `?` returns it through get_connection, which releases the mutex.
Handshake(t) ==
    /\ pc[t] = "handshake"
    /\ \E r \in HandshakeOutcomes :
        /\ healthy' = (healthy /\ r = "ok")
        /\ IF r = "ok"
           THEN /\ live' = live \cup {service[t]}
                /\ pc' = [pc EXCEPT ![t] = "catalog"]
                /\ UNCHANGED <<service, returned, lockOwner>>
           ELSE /\ service' = [service EXCEPT ![t] = 0]
                /\ returned' = [returned EXCEPT ![t] = Some(ConnErr)]
                /\ lockOwner' = 0
                /\ pc' = [pc EXCEPT ![t] = "agent"]
                /\ UNCHANGED live
    /\ UNCHANGED <<apiKey, catalog, calls, pool, waiters, created, returnedTools,
                   probe, probes, attempts, consumed, emitted, undelivered, result>>

\* FetchCatalog that returns the tool list as fetched (cloned before the
\* normalization) while the slot caches the normalized one.
FetchCatalogReturnsRaw(t) ==
    /\ pc[t] = "catalog"
    /\ \E r \in ListToolsOutcomes :
        /\ healthy' = (healthy /\ r = "ok")
        /\ IF r = "ok"
           THEN /\ pool' = Some(ConnectionHolder(service[t], NormalizeTools(catalog)))
                /\ live' = live \ {pool[i].client : i \in 1..Len(pool)}
                /\ returned' = [returned EXCEPT ![t] = Some(ConnOk(catalog, service[t]))]
                /\ returnedTools' = returnedTools \cup {catalog}
           ELSE /\ live' = live \ {service[t]}
                /\ returned' = [returned EXCEPT ![t] = Some(ConnErr)]
                /\ UNCHANGED <<pool, returnedTools>>
    /\ service' = [service EXCEPT ![t] = 0]
    /\ lockOwner' = 0
    /\ pc' = [pc EXCEPT ![t] = "agent"]
    /\ UNCHANGED <<apiKey, catalog, calls, waiters, created, probe, probes, attempts,
                   consumed, emitted, undelivered, result>>

\* FetchCatalog that leaks the new service when the fetch fails: the error is
\* returned but the running service is never dropped.
FetchCatalogLeak(t) ==
    /\ pc[t] = "catalog"
    /\ \E r \in ListToolsOutcomes :
        /\ healthy' = (healthy /\ r = "ok")
        /\ IF r = "ok"
           THEN LET tools == NormalizeTools(catalog) IN
                /\ pool' = Some(ConnectionHolder(service[t], tools))
                /\ live' = live \ {pool[i].client : i \in 1..Len(pool)}
                /\ returned' = [returned EXCEPT ![t] = Some(ConnOk(tools, service[t]))]
                /\ returnedTools' = returnedTools \cup {tools}
           ELSE /\ returned' = [returned EXCEPT ![t] = Some(ConnErr)]
                /\ UNCHANGED <<pool, live, returnedTools>>
    /\ service' = [service EXCEPT ![t] = 0]
    /\ lockOwner' = 0
    /\ pc' = [pc EXCEPT ![t] = "agent"]
    /\ UNCHANGED <<apiKey, catalog, calls, waiters, created, probe, probes, attempts, consumed,
                   emitted, undelivered, result>>

\* lib.rs 142-160, 118-122: the catalog is fetched with a 10 s timeout. A reply
\* is normalized, stored in the slot (dropping what the slot held) and
\* returned; an error or the timeout drops the new service and is returned.
FetchCatalog(t) ==
    /\ pc[t] = "catalog"
    /\ \E r \in ListToolsOutcomes :
        /\ healthy' = (healthy /\ r = "ok")
        /\ IF r = "ok"
           THEN LET tools == NormalizeTools(catalog) IN
                /\ pool' = Some(ConnectionHolder(service[t], tools))
                /\ live' = live \ {pool[i].client : i \in 1..Len(pool)}
                /\ returned' = [returned EXCEPT ![t] = Some(ConnOk(tools, service[t]))]
                /\ returnedTools' = returnedTools \cup {tools}
           ELSE /\ live' = live \ {service[t]}
                /\ returned' = [returned EXCEPT ![t] = Some(ConnErr)]
                /\ UNCHANGED <<pool, returnedTools>>
    /\ service' = [service EXCEPT ![t] = 0]
    /\ lockOwner' = 0
    /\ pc' = [pc EXCEPT ![t] = "agent"]
    /\ UNCHANGED <<apiKey, catalog, calls, waiters, created, probe, probes, attempts, consumed,
                   emitted, undelivered, result>>

(* ----------------------- the streaming loop --------------------------- *)

\* lib.rs 51-56: the tools the agent is built with: the built-in one, and the
\* discovered ones when get_connection succeeded.
AgentTools(t) ==
    <<"get_current_time">>
        \o (IF returned[t] # None /\ returned[t][1].ok
            THEN [i \in 1..Len(returned[t][1].tools) |-> returned[t][1].tools[i].name]
            ELSE <<>>)

\* OpenStream that treats a failed tool discovery as fatal: an error chunk is
\* emitted and the turn fails before the stream is opened.
OpenStreamAbortOnError(t) ==
    /\ pc[t] = "agent"
    /\ returned[t] # None
    /\ probe' = [probe EXCEPT ![t] = None]
    /\ probes' = [probes EXCEPT ![t] = 0]
    /\ attempts' = [attempts EXCEPT ![t] = 0]
    /\ IF returned[t][1].ok
       THEN /\ pc' = [pc EXCEPT ![t] = "stream"]
            /\ UNCHANGED <<emitted, undelivered, result>>
       ELSE /\ pc' = [pc EXCEPT ![t] = "done"]
            /\ Emit(t, <<>>, {}, AgentChunk(<<"Error: ", "tools">>))
            /\ result' = [result EXCEPT ![t] = Some(Err(<<"tools">>))]
    /\ UNCHANGED <<apiKey, catalog, calls, poolVars, service, returned, consumed>>

\* lib.rs 51-61: the result of get_connection is matched (an error is skipped),
\* the agent is built and the model stream opened.
OpenStream(t) ==
    /\ pc[t] = "agent"
    /\ returned[t] # None
    /\ probe' = [probe EXCEPT ![t] = None]
    /\ probes' = [probes EXCEPT ![t] = 0]
    /\ attempts' = [attempts EXCEPT ![t] = 0]
    /\ pc' = [pc EXCEPT ![t] = "stream"]
    /\ UNCHANGED <<apiKey, catalog, calls, poolVars, service, returned, consumed,
                   emitted, undelivered, result>>

\* The turn takes the next item from the stream.
Take(t, item) ==
    /\ pc[t] = "stream"
    /\ Len(consumed[t]) < MaxStreamLen
    /\ consumed' = [consumed EXCEPT ![t] = Append(@, item)]
    /\ UNCHANGED <<apiKey, catalog, calls, poolVars, probe, probes, attempts, service, returned>>

\* StreamText that propagates a failed delivery (`?` on emit): the turn fails.
StreamTextAbortOnSinkError(t) ==
    \E s \in Texts :
        /\ Take(t, TextItem(s))
        /\ Emit(t, emitted[t], undelivered[t], AgentChunk(TextDelta(s)))
        /\ IF undelivered'[t] # undelivered[t]
           THEN /\ result' = [result EXCEPT ![t] = Some(Err(<<"emit">>))]
                /\ pc' = [pc EXCEPT ![t] = "done"]
           ELSE UNCHANGED <<pc, result>>

\* lib.rs 65-80: a text item is emitted as a chunk carrying the text.
StreamText(t) ==
    \E s \in Texts :
        /\ Take(t, TextItem(s))
        /\ Emit(t, emitted[t], undelivered[t], AgentChunk(TextDelta(s)))
        /\ UNCHANGED <<pc, result>>

\* StreamToolCall that forwards the non-text item as a chunk with an empty delta.
StreamToolCallEmits(t) ==
    /\ Take(t, ToolCallItem)
    /\ Emit(t, emitted[t], undelivered[t], AgentChunk(TextDelta("")))
    /\ UNCHANGED <<pc, result>>

\* lib.rs 65-67, 80: a stream item that is not text emits nothing.
StreamToolCall(t) ==
    /\ Take(t, ToolCallItem)
    /\ UNCHANGED <<pc, emitted, undelivered, result>>

\* lib.rs 85-88: any other item is skipped.
StreamOther(t) ==
    /\ Take(t, OtherItem)
    /\ UNCHANGED <<pc, emitted, undelivered, result>>

\* StreamFinal with the break of lib.rs 83 missing: the loop goes on.
StreamFinalContinues(t) ==
    /\ Take(t, FinalItem)
    /\ UNCHANGED <<pc, emitted, undelivered, result>>

\* lib.rs 81-84, 101-102: the final response ends the loop, the turn succeeds.
StreamFinal(t) ==
    /\ Take(t, FinalItem)
    /\ result' = [result EXCEPT ![t] = Some(Ok)]
    /\ pc' = [pc EXCEPT ![t] = "done"]
    /\ UNCHANGED <<emitted, undelivered>>

\* StreamError with the return of lib.rs 96 missing: the loop goes on.
StreamErrorContinues(t) ==
    /\ Take(t, ErrorItem)
    /\ Emit(t, emitted[t], undelivered[t], AgentChunk(StreamErrorDelta(ErrorItem.text)))
    /\ UNCHANGED <<pc, result>>

\* lib.rs 89-97: an error item is emitted as a chunk and the turn fails.
StreamError(t) ==
    /\ Take(t, ErrorItem)
    /\ Emit(t, emitted[t], undelivered[t], AgentChunk(StreamErrorDelta(ErrorItem.text)))
    /\ result' = [result EXCEPT ![t] = Some(Err(StreamErrorMsg(ErrorItem.text)))]
    /\ pc' = [pc EXCEPT ![t] = "done"]

\* lib.rs 63, 101-102: the stream is exhausted (next() gives None).
StreamEnd(t) ==
    /\ pc[t] = "stream"
    /\ result' = [result EXCEPT ![t] = Some(Ok)]
    /\ pc' = [pc EXCEPT ![t] = "done"]
    /\ UNCHANGED <<apiKey, catalog, calls, poolVars, probe, probes, attempts, service, returned,
                   consumed, emitted, undelivered>>

(* --------------------------- specification ----------------------------- *)

Next ==
    \/ ServerUpdate
    \/ \E t \in Turns : Invoke(t)
    \/ \E t \in Turns : Acquire(t)
    \/ \E t \in Turns : Probe(t)
    \/ \E t \in Turns : Handshake(t)
    \/ \E t \in Turns : FetchCatalog(t)
    \/ \E t \in Turns : OpenStream(t)
    \/ \E t \in Turns : StreamText(t)
    \/ \E t \in Turns : StreamToolCall(t)
    \/ \E t \in Turns : StreamOther(t)
    \/ \E t \in Turns : StreamFinal(t)
    \/ \E t \in Turns : StreamError(t)
    \/ \E t \in Turns : StreamEnd(t)

Spec == Init /\ [][Next]_vars

\* The connection manager under concurrent turns whose model streams are
\* empty: the streaming loop reads and writes none of the pool's variables
\* (every stream action leaves poolVars unchanged), so the items of a stream
\* add nothing to what the turns can do to the shared slot.
NextPool ==
    \/ ServerUpdate
    \/ \E t \in Turns : Invoke(t)
    \/ \E t \in Turns : Acquire(t)
    \/ \E t \in Turns : Probe(t)
    \/ \E t \in Turns : Handshake(t)
    \/ \E t \in Turns : FetchCatalog(t)
    \/ \E t \in Turns : OpenStream(t)
    \/ \E t \in Turns : StreamEnd(t)

SpecPool == Init /\ [][NextPool]_vars

\* One chat turn at a time (the UI waits for a turn's result before it sends
\* the next message), with every step of the turn and of the server.
FirstTurn == {t \in Turns : \A u \in Turns : t <= u}

NextTurn ==
    \/ ServerUpdate
    \/ \E t \in FirstTurn : Invoke(t)
    \/ \E t \in FirstTurn : Acquire(t)
    \/ \E t \in FirstTurn : Probe(t)
    \/ \E t \in FirstTurn : Handshake(t)
    \/ \E t \in FirstTurn : FetchCatalog(t)
    \/ \E t \in FirstTurn : OpenStream(t)
    \/ \E t \in FirstTurn : StreamText(t)
    \/ \E t \in FirstTurn : StreamToolCall(t)
    \/ \E t \in FirstTurn : StreamOther(t)
    \/ \E t \in FirstTurn : StreamFinal(t)
    \/ \E t \in FirstTurn : StreamError(t)
    \/ \E t \in FirstTurn : StreamEnd(t)

SpecTurn == Init /\ [][NextTurn]_vars

\* The input schemas a tool server can send: any of "type", "properties" and
\* "required" present or not, "properties" an object over the keys a and b (in
\* either order) or not an object, "required" any list of these keys or not a
\* list.
KeyOrders == {<<>>, <<"a">>, <<"b">>, <<"a", "b">>, <<"b", "a">>}

FieldValues(k) ==
    CASE k = "type" -> {JString("object")}
      [] k = "properties" -> {JObject(keys) : keys \in KeyOrders} \cup {JString("p")}
      [] k = "required" -> {JArray(keys) : keys \in KeyOrders} \cup {JString("r")}

FieldNames == {"type", "properties", "required"}

Schemas ==
    {s \in UNION {[D -> UNION {FieldValues(k) : k \in FieldNames}] : D \in SUBSET FieldNames} :
        \A k \in DOMAIN s : s[k] \in FieldValues(k)}

\* The connection manager used by one turn at a time against a server whose
\* catalog is one tool with any of these schemas.
InitNorm ==
    /\ apiKey \in BOOLEAN
    /\ catalog \in {<<[name |-> "tool", input_schema |-> s]>> : s \in Schemas}
    /\ pool = None
    /\ lockOwner = 0
    /\ waiters = <<>>
    /\ live = {}
    /\ created = 0
    /\ calls = 0
    /\ healthy = TRUE
    /\ returnedTools = {}
    /\ pc = [t \in Turns |-> "idle"]
    /\ probe = [t \in Turns |-> None]
    /\ probes = [t \in Turns |-> 0]
    /\ attempts = [t \in Turns |-> 0]
    /\ service = [t \in Turns |-> 0]
    /\ returned = [t \in Turns |-> None]
    /\ consumed = [t \in Turns |-> <<>>]
    /\ emitted = [t \in Turns |-> <<>>]
    /\ undelivered = [t \in Turns |-> {}]
    /\ result = [t \in Turns |-> None]

NextNorm ==
    \/ \E t \in FirstTurn : Invoke(t)
    \/ \E t \in FirstTurn : Acquire(t)
    \/ \E t \in FirstTurn : Probe(t)
    \/ \E t \in FirstTurn : Handshake(t)
    \/ \E t \in FirstTurn : FetchCatalog(t)
    \/ \E t \in FirstTurn : OpenStream(t)
    \/ \E t \in FirstTurn : StreamEnd(t)

SpecNorm == InitNorm /\ [][NextNorm]_vars

\* Fair scheduling of the concurrent turns. The runtime wakes the turn at the
\* head of the mutex's queue when the mutex is free, and the two list_tools
\* calls sit inside tokio::time::timeout (lib.rs 112, 142), whose timer ends
\* them whatever the server does. The handshake (lib.rs 140) is awaited with
\* no timeout: it ends only when the server answers or the transport fails, so
\* nothing makes it fair.
PoolFairness ==
    \A t \in Turns :
        /\ WF_vars(Acquire(t))
        /\ WF_vars(Probe(t))
        /\ WF_vars(FetchCatalog(t))

SpecPoolFair == SpecPool /\ PoolFairness

(* ------------------------------ properties ---------------------------- *)

\* The turns inside get_connection's critical section.
Probing == {t \in Turns : pc[t] = "probe"}

Creating == {t \in Turns : pc[t] \in {"handshake", "catalog"}}

\* The call of turn t has come back from get_connection with this result.
Returned(t) == returned[t] # None

ReturnedOk(t) == Returned(t) /\ returned[t][1].ok

ReturnedErr(t) == Returned(t) /\ ~returned[t][1].ok

\* The liveness probe of turn t's call did not succeed (an error or the timeout).
ProbeFailed(t) == probe[t] # None /\ probe[t][1].outcome # "ok"

\* C1: against a healthy tool server (no handshake, catalog fetch or probe has
\* failed) create_connection has run at most once in total, no call has
\* failed, and all calls have returned one and the same tool list.
C1_SingleCreation ==
    healthy =>
        /\ created <= 1
        /\ Cardinality(returnedTools) <= 1
        /\ \A t \in Turns : Returned(t) => returned[t][1].ok /\ returned[t][1].client = 1

\* C1 witness: every turn has its tools from the one connection, and the
\* server's catalog has changed since that connection was created.
C1_Witness ==
    /\ healthy
    /\ created = 1
    /\ calls = MaxCalls
    /\ \A t \in Turns : ReturnedOk(t)
    /\ NormalizeTools(catalog) \notin returnedTools

\* C2 (as claimed): a call whose probe of the cached connection fails, by an
\* error or by the timeout, empties the slot and starts exactly one creation.
C2_FailedProbeReplaced ==
    [][\A t \in Turns :
          (pc[t] = "probe" /\ pc'[t] # "probe" /\ probe'[t][1].outcome # "ok")
              => (created' = created + 1 /\ pool' = None /\ pc'[t] = "handshake")]_vars

\* C3 (as claimed): a call whose probe failed, by an error or by the timeout,
\* never returns the tools and client of the connection it probed.
C3_FailedProbeDiscards ==
    \A t \in Turns :
        (ProbeFailed(t) /\ ReturnedOk(t)) => returned[t][1].client # probe[t][1].client

\* C4: a call that comes back from create_connection with an error leaves the
\* slot empty and the mutex free, and a call that finds the slot empty goes
\* straight to a creation, with no probe.
C4_FailedCreationEmptiesSlot ==
    [][\A t \in Turns :
          /\ (t \in Creating /\ pc'[t] = "agent" /\ ~returned'[t][1].ok)
                => (pool' = None /\ lockOwner' = 0)
          /\ (pc[t] = "lock" /\ pc'[t] # "lock" /\ pool = None)
                => (pc'[t] = "handshake" /\ created' = created + 1 /\ probe'[t] = None)]_vars

\* C4 witness: the call found a stale handle, its replacement failed, and the
\* slot is empty.
C4_Witness ==
    \E t \in Turns :
        /\ pc[t] = "agent"
        /\ ReturnedErr(t)
        /\ probe[t] # None /\ probe[t][1].outcome = "timeout"
        /\ pool = None

\* C5: at most one connection to the tool server is live: the slot holds at
\* most one holder, whose connection is then the only live one, and while a
\* connection is being created the slot is empty and nothing else is live.
C5_AtMostOneLive ==
    /\ Len(pool) <= 1
    /\ Cardinality(live) <= 1
    /\ pool # None => live = {pool[1].client}
    /\ \A t \in Creating : pool = None /\ live \subseteq {service[t]}
    /\ (pool = None /\ Creating = {}) => live = {}

\* C5 witness: a replacement is being created after the stale connection was
\* dropped, and it is the only live connection.
C5_Witness ==
    \E t \in Turns :
        /\ pc[t] = "catalog"
        /\ probe[t] # None
        /\ live = {service[t]}
        /\ service[t] # probe[t][1].client

\* C6: at most one turn is probing or creating at any time, and that turn
\* holds the slot's mutex.
C6_OneAttemptAtATime ==
    /\ Cardinality(Probing \cup Creating) <= 1
    /\ \A t \in Probing \cup Creating : lockOwner = t

\* C6 witness: one turn is creating while all the others wait for the mutex.
C6_Witness ==
    \E t \in Turns :
        /\ pc[t] = "catalog"
        /\ \A u \in Turns \ {t} : pc[u] = "lock"

\* C7: without the credential a turn emits exactly the one error chunk and
\* fails, get_connection is never called (the slot, the mutex and its queue are
\* untouched, nothing is probed or created) and no stream is opened or read.
C7_NoCredentialNoNetwork ==
    ~apiKey =>
        /\ pool = None /\ lockOwner = 0 /\ waiters = <<>> /\ live = {}
        /\ created = 0 /\ returnedTools = {}
        /\ \A t \in Turns :
            /\ pc[t] \in {"idle", "done"}
            /\ probe[t] = None /\ returned[t] = None /\ consumed[t] = <<>>
            /\ pc[t] = "done" =>
                /\ emitted[t] = <<AgentChunk(KeyErrorMsg)>>
                /\ result[t] = Some(Err(KeyErrorMsg))

\* C7 witness: a turn without the credential has failed.
C7_Witness ==
    /\ ~apiKey
    /\ \E t \in Turns : pc[t] = "done" /\ Len(emitted[t]) = 1 /\ ~result[t][1].ok

\* The text items of a stream, as the chunks a sink should see.
IsText(item) == item.kind = "text"

TextChunks(items) ==
    LET texts == SelectSeq(items, IsText)
    IN  [i \in 1..Len(texts) |-> AgentChunk(TextDelta(texts[i].text))]

HasError(items) == \E i \in 1..Len(items) : items[i].kind = "error"

\* C8: for a stream without an error item the chunks emitted so far are exactly
\* its text items, in stream order, and when the turn ends (final response or
\* exhaustion) it returns success.
C8_TextDeltasInOrder ==
    \A t \in Turns :
        (pc[t] \in {"stream", "done"} /\ apiKey /\ ~HasError(consumed[t])) =>
            /\ emitted[t] = TextChunks(consumed[t])
            /\ pc[t] = "done" => result[t] = Some(Ok)
            /\ pc[t] = "stream" => result[t] = None

\* C8 witness: three text items with an intermediate item between them, then
\* the final response.
C8_Witness ==
    \E t \in Turns :
        /\ pc[t] = "done"
        /\ consumed[t] = <<TextItem("b"), ToolCallItem, TextItem("a"), FinalItem>>
        /\ Len(emitted[t]) = 2
        /\ result[t] = Some(Ok)

\* What a turn emits and returns for the items it has consumed.
ExpectedEmitted(items) ==
    TextChunks(items)
        \o (IF HasError(items) THEN <<AgentChunk(StreamErrorDelta("e"))>> ELSE <<>>)

ExpectedResult(items) ==
    IF HasError(items) THEN Some(Err(StreamErrorMsg("e"))) ELSE Some(Ok)

\* C9: a turn whose get_connection call failed goes on with the built-in tool
\* only: what it emits and returns is what the consumed stream alone
\* determines, with no chunk and no failure for the discovery error.
C9_DiscoveryFailureNotFatal ==
    \A t \in Turns :
        ReturnedErr(t) =>
            /\ pc[t] \in {"agent", "stream", "done"}
            /\ AgentTools(t) = <<"get_current_time">>
            /\ emitted[t] = ExpectedEmitted(consumed[t])
            /\ pc[t] = "done" => result[t] = ExpectedResult(consumed[t])
            /\ pc[t] # "done" => result[t] = None

\* C9 witness: discovery failed and the turn has streamed text and succeeded.
C9_Witness ==
    \E t \in Turns :
        /\ ReturnedErr(t)
        /\ pc[t] = "done"
        /\ consumed[t] = <<TextItem("a"), FinalItem>>
        /\ result[t] = Some(Ok)

\* C10: an error item ends the turn: it is the last item consumed, one error
\* chunk follows the text chunks emitted before it, the turn returns failure;
\* and a turn has a result exactly when it has ended.
C10_StreamErrorEndsTurn ==
    \A t \in Turns :
        /\ Len(result[t]) <= 1
        /\ (pc[t] = "done") = (result[t] # None)
        /\ HasError(consumed[t]) =>
            /\ pc[t] = "done"
            /\ consumed[t][Len(consumed[t])].kind = "error"
            /\ ~HasError(SubSeq(consumed[t], 1, Len(consumed[t]) - 1))
            /\ emitted[t] = TextChunks(consumed[t]) \o <<AgentChunk(StreamErrorDelta("e"))>>
            /\ result[t] = Some(Err(StreamErrorMsg("e")))

\* C10 witness: two text items, then the error.
C10_Witness ==
    \E t \in Turns :
        /\ consumed[t] = <<TextItem("a"), TextItem("b"), ErrorItem>>
        /\ Len(emitted[t]) = 3
        /\ pc[t] = "done"

\* C11: failed deliveries to the sink change nothing in a turn: whichever
\* deliveries have failed, the chunks the turn has tried to emit and the result
\* it returns are the ones its consumed stream alone determines, and only an
\* item of the stream or its exhaustion ends the turn.
C11_SinkFailureChangesNothing ==
    \A t \in Turns :
        /\ undelivered[t] \subseteq 1..Len(emitted[t])
        /\ (apiKey /\ pc[t] \in {"stream", "done"}) =>
            /\ emitted[t] = ExpectedEmitted(consumed[t])
            /\ pc[t] = "done" => result[t] = ExpectedResult(consumed[t])
            /\ pc[t] = "stream" => result[t] = None
        /\ (~apiKey /\ pc[t] = "done") =>
            /\ emitted[t] = <<AgentChunk(KeyErrorMsg)>>
            /\ result[t] = Some(Err(KeyErrorMsg))

\* C11 witness: the first of two text chunks was not delivered, the turn went
\* on to the second and to the final response and succeeded.
C11_Witness ==
    \E t \in Turns :
        /\ pc[t] = "done"
        /\ consumed[t] = <<TextItem("a"), TextItem("b"), FinalItem>>
        /\ undelivered[t] = {1}
        /\ Len(emitted[t]) = 2
        /\ result[t] = Some(Ok)

\* The schema has a "properties" object.
HasPropertiesObject(schema) ==
    "properties" \in DOMAIN schema /\ schema["properties"].kind = "object"

Elements(seq) == {seq[i] : i \in 1..Len(seq)}

\* The "required" list of the schema is, as a set, the set of its property keys.
RequiresAllProperties(schema) ==
    /\ "required" \in DOMAIN schema
    /\ schema["required"].kind = "array"
    /\ Elements(schema["required"].items) = Elements(schema["properties"].items)

\* Every tool list get_connection has handed out or holds in the slot.
ToolListsSeen ==
    returnedTools
        \cup {pool[i].tools : i \in 1..Len(pool)}
        \cup {returned[t][1].tools : t \in {u \in Turns : ReturnedOk(u)}}

\* C12: in every tool list cached or returned by get_connection, each schema
\* with a "properties" object requires exactly all its property keys, whatever
\* "required" field the server sent.
C12_RequiredIsAllProperties ==
    \A tools \in ToolListsSeen :
        \A i \in 1..Len(tools) :
            HasPropertiesObject(tools[i].input_schema)
                => RequiresAllProperties(tools[i].input_schema)

\* C12 witness: the server sent a "required" list that names only one of the
\* two properties, and the tool has been returned.
C12_Witness ==
    /\ HasPropertiesObject(catalog[1].input_schema)
    /\ catalog[1].input_schema["properties"].items = <<"b", "a">>
    /\ "required" \in DOMAIN catalog[1].input_schema
    /\ catalog[1].input_schema["required"] = JArray(<<"a">>)
    /\ \E t \in Turns : ReturnedOk(t) /\ returned[t][1].tools \in returnedTools

\* The turns that are inside get_connection's critical section.
InCriticalSection == Probing \cup Creating

\* C13: the mutex is held exactly by a turn that is probing or creating: a
\* turn that has come back from get_connection, by the fast path, a successful
\* or a failed creation, does not hold it, so no turn holds it while it waits
\* for or reads the model stream.
C13_LockOnlyInCriticalSection ==
    /\ lockOwner # 0 => lockOwner \in InCriticalSection
    /\ \A t \in Turns : pc[t] \in {"idle", "lock", "agent", "stream", "done"} => lockOwner # t
    /\ (InCriticalSection = {}) => lockOwner = 0

\* C13 witness: two turns are streaming, one after the fast path and one after
\* a failed creation, while a third holds the mutex.
C13_Witness ==
    \E t, u, w \in Turns :
        /\ pc[t] = "stream" /\ ReturnedOk(t)
        /\ pc[u] = "stream" /\ ReturnedErr(u)
        /\ pc[w] = "catalog" /\ lockOwner = w

\* A turn is inside a get_connection call: queued on the mutex or holding it.
InGetConnection(t) == pc[t] \in {"lock", "probe", "handshake", "catalog"}

\* C14 (as claimed): under fair scheduling every get_connection call comes
\* back to its turn, whatever the server does, so the mutex is always released
\* and every queued turn gets it.
C14_EveryCallReturns ==
    \A t \in Turns : InGetConnection(t) ~> (pc[t] = "agent")

\* C15 (as claimed): a call comes back with an error only after its own
\* creation attempt, and a call whose probe failed, by an error or by the
\* timeout, comes back with the result of a replacement attempt.
C15_ErrorOnlyFromFailedCreation ==
    \A t \in Turns :
        pc[t] = "agent" =>
            /\ ReturnedErr(t) => attempts[t] = 1
            /\ ProbeFailed(t) => attempts[t] = 1

\* C16: a call starts at most one probe and at most one creation, a probe
\* only before the creation, and a call that has come back with an error has
\* made exactly its one attempt.
C16_NoInternalRetry ==
    \A t \in Turns :
        /\ probes[t] <= 1
        /\ attempts[t] <= 1
        /\ t \in Probing => (probes[t] = 1 /\ attempts[t] = 0)
        /\ t \in Creating => attempts[t] = 1
        /\ (pc[t] = "agent" /\ ReturnedErr(t)) => attempts[t] = 1

\* C16 witness: a call has probed, the probe timed out, its one creation
\* failed and it has returned; the slot is empty for the next call.
C16_Witness ==
    \E t \in Turns :
        /\ pc[t] = "agent"
        /\ ReturnedErr(t)
        /\ probes[t] = 1
        /\ attempts[t] = 1
        /\ created >= 2
        /\ lockOwner # t

\* C17: a probe that succeeds in time leaves the slot, the live connections
\* and the creation counters as they are and returns the tools and client the
\* slot holds, which are those cached when the connection was created.
C17_FastPathFrame ==
    [][\A t \in Turns :
          (pc[t] = "probe" /\ pc'[t] # "probe" /\ probe'[t][1].outcome = "ok") =>
              /\ pool' = pool
              /\ live' = live
              /\ created' = created
              /\ attempts'[t] = 0
              /\ pc'[t] = "agent"
              /\ returned'[t] = Some(ConnOk(pool[1].tools, pool[1].client))]_vars

\* C17 witness: the fast path has returned the cached list although the
\* server's catalog is by now a different one.
C17_Witness ==
    \E t \in Turns :
        /\ pc[t] = "agent"
        /\ probe[t] # None /\ probe[t][1].outcome = "ok"
        /\ ReturnedOk(t)
        /\ pool = Some(ConnectionHolder(returned[t][1].client, returned[t][1].tools))
        /\ returned[t][1].tools # NormalizeTools(catalog)

HasFinal(items) == \E i \in 1..Len(items) : items[i].kind = "final"

\* The items of a stream that produce a chunk.
Producing(items) == {i \in 1..Len(items) : items[i].kind \in {"text", "error"}}

\* C18: the final response is the last item a turn consumes and ends the turn
\* with nothing emitted for it; a chunk is emitted for the text items (and the
\* error item) only, never for a tool-call or other intermediate item.
C18_FinalStopsTheLoop ==
    \A t \in Turns :
        (apiKey /\ pc[t] \in {"stream", "done"}) =>
            /\ Len(emitted[t]) = Cardinality(Producing(consumed[t]))
            /\ HasFinal(consumed[t]) =>
                /\ pc[t] = "done"
                /\ consumed[t][Len(consumed[t])].kind = "final"
                /\ ~HasFinal(SubSeq(consumed[t], 1, Len(consumed[t]) - 1))
                /\ emitted[t] = TextChunks(SubSeq(consumed[t], 1, Len(consumed[t]) - 1))

\* C18 witness: one text item, two intermediate items, then the final response.
C18_Witness ==
    \E t \in Turns :
        /\ pc[t] = "done"
        /\ consumed[t] = <<TextItem("a"), OtherItem, ToolCallItem, FinalItem>>
        /\ emitted[t] = <<AgentChunk(TextDelta("a"))>>

\* C19: when a call comes back with tools and a client, the slot holds at that
\* moment the connection with exactly this client and these tools; and a turn
\* never holds a client together with tools other than those of that client's
\* connection in the slot.
C19_PairIsTheSlotsConnection ==
    /\ [][\A t \in Turns :
            (InGetConnection(t) /\ pc'[t] = "agent" /\ returned'[t][1].ok) =>
                pool' = Some(ConnectionHolder(returned'[t][1].client,
                                              returned'[t][1].tools))]_vars
    /\ [](\A t \in Turns :
            (ReturnedOk(t) /\ pool # None /\ pool[1].client = returned[t][1].client)
                => returned[t][1].tools = pool[1].tools)

\* C19 witness: one turn holds the pair of the first connection, which has
\* since been replaced, and another turn the pair of the replacement.
C19_Witness ==
    \E t, u \in Turns :
        /\ ReturnedOk(t) /\ ReturnedOk(u)
        /\ returned[t][1].client # returned[u][1].client
        /\ returned[t][1].tools # returned[u][1].tools
        /\ pool = Some(ConnectionHolder(returned[u][1].client, returned[u][1].tools))

\* The schema `out` is what the schema `in` may become: no key but "required"
\* is added, removed or changed.
OnlyRequiredDiffers(in, out) ==
    /\ DOMAIN in \ {"required"} = DOMAIN out \ {"required"}
    /\ \A k \in DOMAIN in \ {"required"} : out[k] = in[k]

\* C20: for the schema the server sent and the schema cached from it,
\* normalizing the cached schema again changes nothing, the two differ in
\* "required" at most, and they are equal when the server's schema has no
\* "properties" key or a "properties" value that is not an object.
C20_NormalizationAlgebra ==
    \A h \in 1..Len(pool) :
        /\ Len(pool[h].tools) = Len(catalog)
        /\ NormalizeTools(pool[h].tools) = pool[h].tools
        /\ \A i \in 1..Len(catalog) :
            LET in == catalog[i].input_schema
                out == pool[h].tools[i].input_schema
            IN  /\ pool[h].tools[i].name = catalog[i].name
                /\ NormalizeSchema(out) = out
                /\ OnlyRequiredDiffers(in, out)
                /\ ~HasPropertiesObject(in) => out = in

\* C20 witness: a schema whose "properties" is not an object and that carries
\* its own "required" list has been cached.
C20_Witness ==
    /\ pool # None
    /\ DOMAIN catalog[1].input_schema = FieldNames
    /\ catalog[1].input_schema["properties"] = JString("p")
    /\ catalog[1].input_schema["required"] = JArray(<<"b", "a">>)

====
